---------------------------- MODULE Spec2Model ----------------------------
(***************************************************************************)
(* A model of src/sitemap_crawler.py (class SitemapCrawler).               *)
(*                                                                         *)
(* A Python str is modelled as a sequence of one-character strings, so     *)
(* that parsing, formatting, prefix and suffix tests are computed the way  *)
(* the code computes them.  None is modelled as the empty sequence where   *)
(* the code only tests truthiness.                                         *)
(***************************************************************************)
EXTENDS Integers, Sequences, FiniteSets, TLC

VARIABLES
    \* SitemapCrawler fields (lines 26-63)
    base_url, base_domain, base_path,
    visited_urls, failed_urls, url_titles, url_depths, url_tree,
    \* the recursion of crawl(): the call stack, innermost call last
    stack,
    \* every URL handed to get_page_content, in call order
    fetch_log,
    \* what the last requests.get did (line 151): the exception raised, or
    \* the status, Content-Type and final URL of the response
    response,
    \* every link that extract_links has returned to crawl() (line 309)
    links_seen,
    \* a direct call of one of the pure methods: its name, argument, results
    fn_call, fn_arg, fn_ret,
    \* a call of _build_tree: its argument and its result
    urls_data, tree,
    \* the rows export_to_csv() has written (lines 343-364)
    csv

vars == << base_url, base_domain, base_path, visited_urls, failed_urls,
           url_titles, url_depths, url_tree, stack, fetch_log,
           response, links_seen, fn_call, fn_arg, fn_ret, urls_data, tree, csv >>

crawlerVars == << visited_urls, failed_urls, url_titles, url_depths, url_tree,
                  stack, fetch_log, response, links_seen >>

fnVars == << fn_call, fn_arg, fn_ret >>

treeVars == << urls_data, tree >>

-----------------------------------------------------------------------------
(* str primitives *)

MinOf(S) == CHOOSE x \in S : \A y \in S : x <= y

MaxOf(S) == CHOOSE x \in S : \A y \in S : x >= y

\* The element of a one-element set.  A value that is used more than once is
\* bound as x \in { e } rather than by LET, which computes it once.
The(S) == CHOOSE x \in S : TRUE

\* s.find(c) for c in cs, 1-based; 0 when absent
Find(s, cs) ==
    LET I == { i \in 1..Len(s) : s[i] \in cs }
    IN  IF I = {} THEN 0 ELSE MinOf(I)

\* s.rfind(c), 1-based; 0 when absent
RFind(s, c) ==
    LET I == { i \in 1..Len(s) : s[i] = c }
    IN  IF I = {} THEN 0 ELSE MaxOf(I)

Contains(s, c) == \E i \in 1..Len(s) : s[i] = c

StartsWith(s, p) ==
    /\ Len(p) <= Len(s)
    /\ SubSeq(s, 1, Len(p)) = p

EndsWith(s, p) ==
    /\ Len(p) <= Len(s)
    /\ SubSeq(s, Len(s) - Len(p) + 1, Len(s)) = p

\* s[i:] with a 1-based i
From(s, i) == SubSeq(s, i, Len(s))

\* s.rstrip('/')
RStripSlash(s) ==
    LET I == { i \in 1..Len(s) : s[i] # "/" }
    IN  IF I = {} THEN << >> ELSE SubSeq(s, 1, MaxOf(I))

\* s.strip('/')
StripSlash(s) ==
    LET I == { i \in 1..Len(s) : s[i] # "/" }
    IN  IF I = {} THEN << >> ELSE SubSeq(s, MinOf(I), MaxOf(I))

\* s.split('/')[-1]
LastSegment(s) == From(s, RFind(s, "/") + 1)

\* len(s.split('/'))
SplitCount(s) == Cardinality({ i \in 1..Len(s) : s[i] = "/" }) + 1

UpperToLower ==
    [ c \in { "A", "B", "C", "D", "E", "F", "G", "H", "I", "J", "K", "L", "M",
              "N", "O", "P", "Q", "R", "S", "T", "U", "V", "W", "X", "Y", "Z" }
      |-> CASE c = "A" -> "a" [] c = "B" -> "b" [] c = "C" -> "c" [] c = "D" -> "d"
            [] c = "E" -> "e" [] c = "F" -> "f" [] c = "G" -> "g" [] c = "H" -> "h"
            [] c = "I" -> "i" [] c = "J" -> "j" [] c = "K" -> "k" [] c = "L" -> "l"
            [] c = "M" -> "m" [] c = "N" -> "n" [] c = "O" -> "o" [] c = "P" -> "p"
            [] c = "Q" -> "q" [] c = "R" -> "r" [] c = "S" -> "s" [] c = "T" -> "t"
            [] c = "U" -> "u" [] c = "V" -> "v" [] c = "W" -> "w" [] c = "X" -> "x"
            [] c = "Y" -> "y" [] c = "Z" -> "z" ]

\* s.lower()
Lower(s) ==
    [ i \in 1..Len(s) |->
        IF s[i] \in DOMAIN UpperToLower THEN UpperToLower[s[i]] ELSE s[i] ]

LowerLetters ==
    { "a", "b", "c", "d", "e", "f", "g", "h", "i", "j", "k", "l", "m",
      "n", "o", "p", "q", "r", "s", "t", "u", "v", "w", "x", "y", "z" }

Digits == { "0", "1", "2", "3", "4", "5", "6", "7", "8", "9" }

IsAlpha(c) == c \in LowerLetters \/ c \in DOMAIN UpperToLower

\* urllib.parse.scheme_chars
SchemeChars == LowerLetters \cup DOMAIN UpperToLower \cup Digits \cup { "+", "-", "." }

-----------------------------------------------------------------------------
(* urllib.parse, as the crawler uses it (imported at line 9).  The inputs   *)
(* of this model hold no whitespace, no control characters, no ';' and no  *)
(* '[' or ']', so the stripping of those, the params split and the IPv6    *)
(* checks of urlsplit have nothing to act on and are left out.             *)

HTTP == << "h", "t", "t", "p" >>

\* the schemes of urllib.parse.uses_netloc that the inputs can carry
UsesNetloc == { HTTP, << "h", "t", "t", "p", "s" >>, << "f", "t", "p" >> }

\* urlsplit: a leading scheme, lower-cased, and what follows its ':'
SplitScheme(url) ==
    The({ IF /\ i > 1
             /\ IsAlpha(url[1])
             /\ \A k \in 1..(i - 1) : url[k] \in SchemeChars
          THEN [ scheme |-> Lower(SubSeq(url, 1, i - 1)), rest |-> From(url, i + 1) ]
          ELSE [ scheme |-> << >>, rest |-> url ]
          : i \in { Find(url, { ":" }) } })

\* urlsplit: after '//' the netloc runs to the first of '/', '?', '#'
SplitNetloc(url) ==
    IF ~StartsWith(url, << "/", "/" >>) THEN [ netloc |-> << >>, rest |-> url ]
    ELSE The({ IF d = 0
               THEN [ netloc |-> From(url, 3), rest |-> << >> ]
               ELSE [ netloc |-> SubSeq(url, 3, d + 1), rest |-> From(url, d + 2) ]
               : d \in { Find(From(url, 3), { "/", "?", "#" }) } })

\* s.split(c, 1): what precedes the first c and what follows it
SplitAt(s, c) ==
    The({ IF k = 0
          THEN [ head |-> s, tail |-> << >> ]
          ELSE [ head |-> SubSeq(s, 1, k - 1), tail |-> From(s, k + 1) ]
          : k \in { Find(s, { c }) } })

\* urlparse(url): scheme, netloc, path, query, fragment
UrlParse(url) ==
    The({ The({ The({ The({ [ scheme |-> a.scheme, netloc |-> b.netloc,
                              path |-> q.head, query |-> q.tail,
                              fragment |-> f.tail ]
                            : q \in { SplitAt(f.head, "?") } })
                      : f \in { SplitAt(b.rest, "#") } })
                : b \in { SplitNetloc(a.rest) } })
          : a \in { SplitScheme(url) } })

\* urlunparse(parts), with the params part empty
UrlUnparse(p) ==
    LET withSlash == IF p.path # << >> /\ p.path[1] # "/"
                     THEN << "/" >> \o p.path ELSE p.path
        u1 == IF \/ p.netloc # << >>
                 \/ /\ p.scheme # << >>
                    /\ p.scheme \in UsesNetloc
                    /\ ~StartsWith(p.path, << "/", "/" >>)
              THEN << "/", "/" >> \o p.netloc \o withSlash
              ELSE p.path
        u2 == IF p.scheme # << >> THEN p.scheme \o << ":" >> \o u1 ELSE u1
        u3 == IF p.query # << >> THEN u2 \o << "?" >> \o p.query ELSE u2
    IN  IF p.fragment # << >> THEN u3 \o << "#" >> \o p.fragment ELSE u3

\* urldefrag(url)[0]
UrlDefrag(url) ==
    The({ IF Contains(u, "#")
          THEN UrlUnparse([ UrlParse(u) EXCEPT !.fragment = << >> ])
          ELSE u
          : u \in { url } })

-----------------------------------------------------------------------------
(* SitemapCrawler: the pure methods *)

\* f"{scheme}://{netloc}{path}"
FormatUrl(scheme, netloc, path) == scheme \o << ":", "/", "/" >> \o netloc \o path

\* lines 78-87: the path, '/' when empty, with '/' appended to a last
\* segment that holds no '.'
NormalizedPath(path) ==
    IF path = << >> THEN << "/" >>
    ELSE IF ~EndsWith(path, << "/" >>) /\ ~Contains(LastSegment(path), ".")
         THEN path \o << "/" >>
         ELSE path

NormalizeUrl(url) ==
    The({ IF parsed.query # << >>
          THEN FormatUrl(parsed.scheme, parsed.netloc, NormalizedPath(parsed.path))
                   \o << "?" >> \o parsed.query
          ELSE FormatUrl(parsed.scheme, parsed.netloc, NormalizedPath(parsed.path))
          : parsed \in { UrlParse(url) } })

excluded_extensions ==
    { << ".", "j", "p", "g" >>, << ".", "j", "p", "e", "g" >>, << ".", "p", "n", "g" >>,
      << ".", "g", "i", "f" >>, << ".", "b", "m", "p" >>, << ".", "s", "v", "g" >>,
      << ".", "w", "e", "b", "p" >>, << ".", "i", "c", "o" >>,
      << ".", "p", "d", "f" >>, << ".", "d", "o", "c" >>, << ".", "d", "o", "c", "x" >>,
      << ".", "x", "l", "s" >>, << ".", "x", "l", "s", "x" >>, << ".", "p", "p", "t" >>,
      << ".", "p", "p", "t", "x" >>,
      << ".", "t", "x", "t" >>, << ".", "c", "s", "v" >>, << ".", "z", "i", "p" >>,
      << ".", "r", "a", "r" >>, << ".", "7", "z" >>,
      << ".", "e", "x", "e" >>, << ".", "d", "m", "g" >>, << ".", "p", "k", "g" >>,
      << ".", "d", "e", "b" >>, << ".", "r", "p", "m" >>,
      << ".", "m", "p", "4" >>, << ".", "a", "v", "i" >>, << ".", "m", "o", "v" >>,
      << ".", "m", "p", "3" >>, << ".", "w", "a", "v" >>,
      << ".", "x", "m", "l" >>, << ".", "j", "s", "o", "n" >>, << ".", "c", "s", "s" >>,
      << ".", "j", "s" >> }

allowed_endings ==
    { << "/" >>, << ".", "h", "t", "m", "l" >>, << ".", "h", "t", "m" >>,
      << ".", "p", "h", "p" >> }

\* is_valid_url without the lower-casing of the path
IsValidUrl_CaseSensitive(raw, domain) ==
    The({ The({ The({
        LET has_allowed_ending ==
                \E ending \in allowed_endings : EndsWith(path_lower, ending)
        IN  IF url = << >> THEN FALSE
            ELSE IF parsed.netloc # domain THEN FALSE
            ELSE IF Contains(url, "?") THEN FALSE
            ELSE IF \E ext \in excluded_extensions : EndsWith(path_lower, ext) THEN FALSE
            ELSE IF ~Contains(LastSegment(parsed.path), ".") THEN TRUE
            ELSE has_allowed_ending
        : path_lower \in { parsed.path } })
        : parsed \in { UrlParse(url) } })
        : url \in { UrlDefrag(raw) } })

IsValidUrl(raw, domain) ==
    The({ The({ The({
        LET has_allowed_ending ==
                \E ending \in allowed_endings : EndsWith(path_lower, ending)
        IN  IF url = << >> THEN FALSE
            ELSE IF parsed.netloc # domain THEN FALSE
            ELSE IF Contains(url, "?") THEN FALSE
            ELSE IF \E ext \in excluded_extensions : EndsWith(path_lower, ext) THEN FALSE
            ELSE IF ~Contains(LastSegment(parsed.path), ".") THEN TRUE
            ELSE has_allowed_ending
        : path_lower \in { Lower(parsed.path) } })
        : parsed \in { UrlParse(url) } })
        : url \in { UrlDefrag(raw) } })

\* lines 233-241: the path relative to the base path
RelativePath(url_path, bpath) ==
    IF bpath # << >> /\ StartsWith(url_path, bpath \o << "/" >>)
    THEN StripSlash(From(url_path, Len(bpath) + 1))
    ELSE StripSlash(url_path)

CalculateDepth(url, bpath) ==
    The({ IF url_path = bpath THEN 0
          ELSE The({ IF relative_path = << >> THEN 0 ELSE SplitCount(relative_path)
                     : relative_path \in { RelativePath(url_path, bpath) } })
          : url_path \in { RStripSlash(UrlParse(url).path) } })

\* __init__: the seed descriptor (base_url, base_domain, base_path)
CrawlerInit(seed) ==
    LET parsed == UrlParse(seed)
        path == IF ~EndsWith(parsed.path, << "/" >>)
                   /\ ~Contains(LastSegment(parsed.path), ".")
                THEN (IF parsed.path # << >> THEN parsed.path \o << "/" >> ELSE << "/" >>)
                ELSE parsed.path
        burl == FormatUrl(parsed.scheme, parsed.netloc, path)
    IN  [ base_url |-> burl,
          base_domain |-> parsed.netloc,
          base_path |-> RStripSlash(UrlParse(burl).path) ]

-----------------------------------------------------------------------------
(* Inputs of the pure methods: URLs put together from a prefix (scheme and *)
(* authority, either of which may be missing), a path of directory         *)
(* segments and a last segment, a query and a fragment.                    *)

MaxDirs == 2

HostH == << "h", ".", "i", "o" >>

HostX == << "x", ".", "i", "o" >>

SchemeSep == << ":", "/", "/" >>

SeedInputs ==
    { HTTP \o SchemeSep \o HostH \o << "/", "d" >>,
      HTTP \o SchemeSep \o HostH }

PrefixInputs ==
    { << >>,
      HTTP \o << ":" >>,
      HTTP \o SchemeSep \o HostH,
      HTTP \o SchemeSep \o HostX }

DirSegs == { << >>, << "d" >>, << "e" >> }

LastSegs ==
    { << >>, << "d" >>, << "a" >>, << "." >>,
      << "a", ".", "J", "S" >>, << "a", ".", "j", "s" >>,
      << "a", ".", "P", "h", "p" >>, << "a", ".", "h", "t", "m" >>,
      << "a", ".", "b" >> }

QueryInputs == { << >>, << "?" >>, << "?", "q" >> }

FragmentInputs == { << >>, << "#", "f" >> }

RECURSIVE JoinDirs(_)
JoinDirs(dirs) ==
    IF dirs = << >> THEN << >>
    ELSE Head(dirs) \o << "/" >> \o JoinDirs(Tail(dirs))

PathInputs ==
    { root \o JoinDirs(dirs) \o last :
        root \in { << >>, << "/" >> },
        dirs \in UNION { [ 1..n -> DirSegs ] : n \in 0..MaxDirs },
        last \in LastSegs }

UrlInputs ==
    { pre \o path \o query \o frag :
        pre \in PrefixInputs, path \in PathInputs,
        query \in QueryInputs, frag \in FragmentInputs }

\* the results of a call of a pure method: the strings normalize_url returned,
\* the verdict of is_valid_url, the depth of calculate_depth
\* no request made yet
NoResponse == [ exc |-> "none", status |-> 0, content_type |-> << >>, url |-> << >> ]

NoResult == [ normalized |-> << >>, valid |-> FALSE, depth |-> 0 ]

\* the fields as __init__ leaves them
Constructed(seed) ==
    /\ base_url = CrawlerInit(seed).base_url
    /\ base_domain = CrawlerInit(seed).base_domain
    /\ base_path = CrawlerInit(seed).base_path
    /\ visited_urls = { }
    /\ failed_urls = << >>
    /\ url_titles = << >>
    /\ url_depths = << >>
    /\ url_tree = << >>

seedVars == << base_url, base_domain, base_path >>

-----------------------------------------------------------------------------
(* SpecUrl: a crawler is constructed and one pure method is called on it *)

InitUrl ==
    /\ \E seed \in SeedInputs : Constructed(seed)
    /\ stack = << >>
    /\ fetch_log = << >>
    /\ response = NoResponse
    /\ links_seen = { }
    /\ fn_call = "none"
    /\ fn_arg \in UrlInputs
    /\ fn_ret = NoResult
    /\ urls_data = << >>
    /\ tree = << >>
    /\ csv = << >>

CallNormalizeUrl ==
    /\ fn_call = "none"
    /\ fn_call' = "normalize_url"
    /\ fn_ret' = [ fn_ret EXCEPT !.normalized = << NormalizeUrl(fn_arg) >> ]
    /\ UNCHANGED << seedVars, crawlerVars, fn_arg, treeVars, csv >>

\* normalize_url applied to its own result
CallNormalizeUrlAgain ==
    /\ fn_call = "normalize_url"
    /\ Len(fn_ret.normalized) = 1
    /\ fn_ret' = [ fn_ret EXCEPT
                     !.normalized = Append(@, NormalizeUrl(fn_ret.normalized[1])) ]
    /\ UNCHANGED << seedVars, crawlerVars, fn_call, fn_arg, treeVars, csv >>

CallIsValidUrl ==
    /\ fn_call = "none"
    /\ fn_call' = "is_valid_url"
    /\ fn_ret' = [ fn_ret EXCEPT !.valid = IsValidUrl(fn_arg, base_domain) ]
    /\ UNCHANGED << seedVars, crawlerVars, fn_arg, treeVars, csv >>

CallCalculateDepth ==
    /\ fn_call = "none"
    /\ fn_call' = "calculate_depth"
    /\ fn_ret' = [ fn_ret EXCEPT !.depth = CalculateDepth(fn_arg, base_path) ]
    /\ UNCHANGED << seedVars, crawlerVars, fn_arg, treeVars, csv >>

NextUrl ==
    \/ CallNormalizeUrl
    \/ CallNormalizeUrlAgain
    \/ CallIsValidUrl
    \/ CallCalculateDepth

SpecUrl == InitUrl /\ [][NextUrl]_vars

-----------------------------------------------------------------------------
(* Claims about the pure methods, checked under SpecUrl *)

\* C6: is_valid_url(url) is true exactly when the fragment-stripped URL is
\* non-empty, has the seed's authority, holds no '?', its lower-cased path
\* ends with no denylisted extension, and its last path segment holds no '.'
\* or its lower-cased path ends with an allowed ending; so a URL with a query
\* string or another host is rejected, and a same-host URL without '?' whose
\* last segment has no '.' is accepted.
C6_ValidExactly ==
    fn_call = "is_valid_url" =>
        LET url == UrlDefrag(fn_arg)
            p == UrlParse(url)
            low == Lower(p.path)
            expected ==
                /\ url # << >>
                /\ p.netloc = base_domain
                /\ ~Contains(url, "?")
                /\ \A ext \in excluded_extensions : ~EndsWith(low, ext)
                /\ \/ ~Contains(LastSegment(p.path), ".")
                   \/ \E e \in allowed_endings : EndsWith(low, e)
        IN  /\ fn_ret.valid = expected
            /\ UrlParse(fn_arg).query # << >> => fn_ret.valid = FALSE
            /\ UrlParse(fn_arg).netloc # base_domain => fn_ret.valid = FALSE
            /\ ( /\ url # << >>
                 /\ p.netloc = base_domain
                 /\ ~Contains(url, "?")
                 /\ ~Contains(LastSegment(p.path), ".") ) => fn_ret.valid = TRUE

\* C6 witness: a same-host URL with an upper-case allowed extension was accepted
C6_Witness ==
    /\ fn_call = "is_valid_url"
    /\ fn_ret.valid = TRUE
    /\ EndsWith(UrlParse(fn_arg).path, << ".", "P", "h", "p" >>)
    /\ UrlParse(fn_arg).fragment # << >>

\* C7: normalize_url(normalize_url(u)) = normalize_url(u) for every URL u,
\* stated here for the URLs that have a scheme
C7_NormalizeIdempotent ==
    ( /\ fn_call = "normalize_url"
      /\ Len(fn_ret.normalized) = 2
      /\ UrlParse(fn_arg).scheme # << >> )
        => fn_ret.normalized[2] = fn_ret.normalized[1]

\* the number of non-empty '/'-delimited segments of s
NonEmptySegments(s) ==
    Cardinality({ i \in 1..Len(s) : s[i] # "/" /\ (i = 1 \/ s[i - 1] = "/") })

\* C8: calculate_depth(url) is the number of non-empty segments of the URL
\* path relative to the seed base path (the prefix removed when the path
\* starts with base_path + '/', otherwise the whole path), and 0 when the
\* trailing-slash-stripped paths are equal; for every path, also one with
\* consecutive slashes.  Stated here for the http URLs of the seed's host.
C8_DepthIsNonEmptySegments ==
    ( /\ fn_call = "calculate_depth"
      /\ UrlParse(fn_arg).scheme = HTTP
      /\ UrlParse(fn_arg).netloc = base_domain ) =>
        LET url_path == RStripSlash(UrlParse(fn_arg).path)
            relative == IF StartsWith(url_path, base_path \o << "/" >>)
                        THEN From(url_path, Len(base_path) + 1)
                        ELSE url_path
        IN  fn_ret.depth = IF url_path = base_path THEN 0 ELSE NonEmptySegments(relative)

-----------------------------------------------------------------------------
(* The fetcher: requests.get answers with an exception or with a response. *)
(* The html of a response is modelled by the set of absolute URLs that its *)
(* anchors resolve to (urljoin of line 204 already applied), its title by  *)
(* the stripped text of its <title>.                                       *)

MaxLinks == 2

RootKey == << "r", "o", "o", "t" >>

CrawlSeeds == { HTTP \o SchemeSep \o HostH \o << "/", "d" >> }

SiteA == HTTP \o SchemeSep \o HostH \o << "/", "d" >>

SiteB == HTTP \o SchemeSep \o HostH \o << "/", "d", "/", "a" >>

SiteC == HTTP \o SchemeSep \o HostH \o << "/", "d", "/", "a", "/", "b", ".", "h", "t", "m", "#", "f" >>

SiteE == HTTP \o SchemeSep \o HostX \o << "/" >>

\* the absolute URLs that anchors of the site's pages resolve to
Hrefs == { SiteA, SiteB, SiteC, SiteE }

\* the URLs a request may end at after redirects
RedirectTargets == { SiteB, SiteE }

Titles == { << >>, << "T" >> }

TextHtml == << "t", "e", "x", "t", "/", "h", "t", "m", "l" >>

StatusCodes == { 200, 404 }

\* what requests.get raises: nothing, Timeout, ConnectionError, or another
\* exception e with str(e) empty
Exceptions == { "none", "Timeout", "ConnectionError", "Exception" }

HtmlType == TextHtml \o << ";", "u", "t", "f", "8" >>

ContentTypes == { HtmlType, << "i", "m", "g" >> }

\* the anchor sets a page may hold
AnchorSets == { a \in SUBSET Hrefs : Cardinality(a) <= MaxLinks }

\* what requests.get(url) may do: raise, or answer with a response.  Only
\* one response stands for all those that differ in parts the code never
\* reads: nothing of a response is read after an exception, and neither
\* its body nor its final URL when its type or status is refused.
IsResponse(resp, url) ==
    /\ resp.exc # "none" => resp.status = 200 /\ resp.content_type = HtmlType
    /\ (resp.exc # "none" \/ resp.status # 200 \/ resp.content_type # HtmlType)
        => resp.title = << >> /\ resp.url = url /\ resp.anchors = { }

\* 'text/html' in content_type
IsSubstring(p, s) == \E i \in 1..(Len(s) - Len(p) + 1) : SubSeq(s, i, i + Len(p) - 1) = p

DigitChar == << "0", "1", "2", "3", "4", "5", "6", "7", "8", "9" >>

\* str(n) for a natural number n
RECURSIVE Str(_)
Str(n) == IF n < 10 THEN << DigitChar[n + 1] >>
          ELSE Str(n \div 10) \o << DigitChar[(n % 10) + 1] >>

TimeoutMsg == << "t", "i", "m", "e", "o", "u", "t" >>

ConnectionMsg == << "c", "o", "n", "n", "e", "c", "t", "i", "o", "n" >>

UnknownMsg == << "u", "n", "k", "n", "o", "w", "n" >>

\* the tuple a failed get_page_content returns: (None, None, None, error)
Failure(error) ==
    [ ok |-> FALSE, html |-> { }, title |-> << >>, final_url |-> << >>, error |-> error ]

\* get_page_content that does not look at the status of the response
GetPageContent_AnyStatus(url, resp) ==
    IF resp.exc = "Timeout" THEN Failure(TimeoutMsg)
    ELSE IF resp.exc = "ConnectionError" THEN Failure(ConnectionMsg)
    ELSE IF resp.exc = "Exception" THEN Failure(<< >>)
    ELSE IF ~IsSubstring(TextHtml, resp.content_type)
         THEN Failure(<< "C", "o", "n", "t", "e", "n", "t", "-", "T", "y", "p", "e", ":", " " >>
                      \o resp.content_type)
    ELSE [ ok |-> TRUE, html |-> resp.anchors, title |-> resp.title,
           final_url |-> resp.url, error |-> << >> ]

\* get_page_content(url), given what requests.get(url) did
GetPageContent(url, resp) ==
    IF resp.exc = "Timeout" THEN Failure(TimeoutMsg)
    ELSE IF resp.exc = "ConnectionError" THEN Failure(ConnectionMsg)
    ELSE IF resp.exc = "Exception" THEN Failure(<< >>)
    ELSE IF ~IsSubstring(TextHtml, resp.content_type)
         THEN Failure(<< "C", "o", "n", "t", "e", "n", "t", "-", "T", "y", "p", "e", ":", " " >>
                      \o resp.content_type)
    ELSE IF resp.status # 200
         THEN Failure(<< "H", "T", "T", "P", " " >> \o Str(resp.status))
    ELSE [ ok |-> TRUE, html |-> resp.anchors, title |-> resp.title,
           final_url |-> resp.url, error |-> << >> ]

\* extract_links(html, current_url)
ExtractLinks(html, domain) ==
    { NormalizeUrl(UrlDefrag(a)) : a \in { h \in html : IsValidUrl(UrlDefrag(h), domain) } }

-----------------------------------------------------------------------------
(* crawl(url, parent) *)

\* d[k] = v on a dict
Put(d, k, v) == [ x \in (DOMAIN d) \cup { k } |-> IF x = k THEN v ELSE d[x] ]

\* d[k].append(v) on a defaultdict(list)
AppendTo(d, k, v) == Put(d, k, IF k \in DOMAIN d THEN Append(d[k], v) ELSE << v >>)

\* the final URL as lines 279-280 leave it
FinalUrl(url, final_url) ==
    IF final_url # << >> /\ final_url # url THEN NormalizeUrl(final_url) ELSE final_url

\* line 282: the redirect target is recorded
RedirectRecorded(url, fin, visited) ==
    /\ fin # << >>
    /\ fin # url
    /\ fin \notin visited

\* failed_urls rebound to a new dict instead of updated
FailedAfterFailure_Rebound(url, error) ==
    Put(<< >>, url, IF error # << >> THEN error ELSE UnknownMsg)

\* line 272: failed_urls after a failed fetch of url
FailedAfterFailure(url, error) ==
    Put(failed_urls, url, IF error # << >> THEN error ELSE UnknownMsg)

\* lines 276-283: visited_urls after a successful fetch of url
VisitedAfterSuccess(url, fin) ==
    LET visited == visited_urls \cup { url }
    IN  IF RedirectRecorded(url, fin, visited) THEN visited \cup { fin } ELSE visited

\* the redirect target recorded with the depth of the requested URL
DepthsAfterSuccess_SharedDepth(url, fin, depth) ==
    LET withFinal == IF RedirectRecorded(url, fin, visited_urls \cup { url })
                     THEN Put(url_depths, fin, depth)
                     ELSE url_depths
    IN  Put(withFinal, url, depth)

\* lines 285-291: url_depths after a successful fetch of url
DepthsAfterSuccess(url, fin, depth) ==
    LET withFinal == IF RedirectRecorded(url, fin, visited_urls \cup { url })
                     THEN Put(url_depths, fin, CalculateDepth(fin, base_path))
                     ELSE url_depths
    IN  Put(withFinal, url, depth)

\* the fetched title stored for the requested URL only
TitlesAfterSuccess_RequestedOnly(url, fin, title) == Put(url_titles, url, title)

\* lines 286-290: url_titles after a successful fetch of url
TitlesAfterSuccess(url, fin, title) ==
    LET withFinal == IF RedirectRecorded(url, fin, visited_urls \cup { url })
                     THEN Put(url_titles, fin, title)
                     ELSE url_titles
    IN  Put(withFinal, url, title)

\* every record appended under the root key
TreeAfterSuccess_AllUnderRoot(url, parent, title, depth) ==
    AppendTo(url_tree, RootKey, [ url |-> url, title |-> title, depth |-> depth ])

\* lines 294-306: url_tree after a successful fetch of url
TreeAfterSuccess(url, parent, title, depth) ==
    AppendTo(url_tree, IF parent # << >> THEN parent ELSE RootKey,
             [ url |-> url, title |-> title, depth |-> depth ])

Top == stack[Len(stack)]

Pop == SubSeq(stack, 1, Len(stack) - 1)

\* lines 269-309: url, not visited yet, is fetched and requests.get does resp
CrawlFetch(url, depth, resp) ==
    \E r \in { GetPageContent(url, resp) } :
    \E fin \in { FinalUrl(url, r.final_url) } :
        /\ IsResponse(resp, url)
        /\ fetch_log' = Append(fetch_log, url)
        /\ IF ~r.ok
           THEN /\ failed_urls' = FailedAfterFailure(url, r.error)
                /\ stack' = Pop
                /\ UNCHANGED << visited_urls, url_titles, url_depths, url_tree >>
           ELSE /\ visited_urls' = VisitedAfterSuccess(url, fin)
                /\ url_titles' = TitlesAfterSuccess(url, fin, r.title)
                /\ url_depths' = DepthsAfterSuccess(url, fin, depth)
                /\ url_tree' = TreeAfterSuccess(url, Top.parent, r.title, depth)
                /\ stack' = [ stack EXCEPT ![Len(stack)] =
                                [ pc |-> "loop", url |-> url,
                                  parent |-> Top.parent,
                                  links |-> ExtractLinks(r.html, base_domain) ] ]
                /\ UNCHANGED failed_urls

\* line 309: the links crawl(url) gets from extract_links, none when the
\* fetch fails
LinksOf(url, resp) ==
    The({ IF r.ok THEN ExtractLinks(r.html, base_domain) ELSE { }
          : r \in { GetPageContent(url, resp) } })

\* the parts of what requests.get did that the variable response keeps
Observed(resp) ==
    [ exc |-> resp.exc, status |-> resp.status,
      content_type |-> resp.content_type, url |-> resp.url ]

\* lines 256-309: a call of crawl up to its loop over the links; traced
\* says whether what requests.get did and the links extracted are kept in
\* the variables response and links_seen
CrawlCall(traced) ==
    /\ stack # << >>
    /\ Top.pc = "call"
    /\ \E url \in { NormalizeUrl(Top.url) } :
       \E depth \in { CalculateDepth(url, base_path) } :
           IF url \in visited_urls
           THEN /\ stack' = Pop
                /\ UNCHANGED << visited_urls, failed_urls, url_titles, url_depths,
                                url_tree, fetch_log, response, links_seen >>
           ELSE \E exc \in Exceptions, status \in StatusCodes,
                   content_type \in ContentTypes, title \in Titles,
                   final \in { url } \cup RedirectTargets, anchors \in AnchorSets :
                   \E resp \in { [ exc |-> exc, status |-> status,
                                    content_type |-> content_type, title |-> title,
                                    url |-> final, anchors |-> anchors ] } :
                       /\ CrawlFetch(url, depth, resp)
                       /\ response' = IF traced THEN Observed(resp) ELSE response
                       /\ links_seen' = IF traced THEN links_seen \cup LinksOf(url, resp)
                                                  ELSE links_seen
    /\ UNCHANGED << seedVars, fnVars, treeVars, csv >>

Crawl == CrawlCall(FALSE)

\* the same call of crawl, with the response of its request kept
CrawlTraced == CrawlCall(TRUE)

\* a loop that ends after its first link
LinksAfter_StopAfterFirst(links, link) == { }

\* a loop that takes the same link again
LinksAfter_NoAdvance(links, link) == links

\* the links left to the loop of lines 312-315 after it took link
LinksAfter(links, link) == links \ { link }

\* the call put off until the calls that are running have returned
Called_Deferred(frames, link, parent) ==
    << [ pc |-> "call", url |-> link, parent |-> parent, links |-> { } ] >> \o frames

\* line 315: self.crawl(link, url) is called and runs before the loop goes on
Called(frames, link, parent) ==
    Append(frames, [ pc |-> "call", url |-> link, parent |-> parent, links |-> { } ])

\* lines 312-315: one iteration of the loop, in the set's iteration order
CrawlLink ==
    /\ stack # << >>
    /\ Top.pc = "loop"
    /\ \E link \in Top.links :
        LET rest == [ stack EXCEPT ![Len(stack)].links = LinksAfter(Top.links, link) ]
        IN  stack' = IF link \notin visited_urls
                     THEN Called(rest, link, Top.url)
                     ELSE rest
    /\ UNCHANGED << seedVars, visited_urls, failed_urls, url_titles, url_depths,
                    url_tree, fetch_log, response, links_seen, fnVars, treeVars, csv >>

\* the loop is exhausted and the call returns
CrawlReturn ==
    /\ stack # << >>
    /\ Top.pc = "loop"
    /\ Top.links = { }
    /\ stack' = Pop
    /\ UNCHANGED << seedVars, visited_urls, failed_urls, url_titles, url_depths,
                    url_tree, fetch_log, response, links_seen, fnVars, treeVars, csv >>

\* main(), lines 680-684: SitemapCrawler(base_url), then crawl(crawler.base_url)
Init ==
    /\ \E seed \in CrawlSeeds : Constructed(seed)
    /\ stack = << [ pc |-> "call", url |-> base_url, parent |-> << >>, links |-> { } ] >>
    /\ fetch_log = << >>
    /\ response = NoResponse
    /\ links_seen = { }
    /\ fn_call = "none"
    /\ fn_arg = << >>
    /\ fn_ret = NoResult
    /\ urls_data = << >>
    /\ tree = << >>
    /\ csv = << >>

Next ==
    \/ Crawl
    \/ CrawlLink
    \/ CrawlReturn

Spec == Init /\ [][Next]_vars

\* the crawl is one thread that runs until its call stack is empty
SpecLive == Spec /\ WF_vars(Next)

\* the crawl with the response of every request kept
NextTraced ==
    \/ CrawlTraced
    \/ CrawlLink
    \/ CrawlReturn

SpecTraced == Init /\ [][NextTraced]_vars

-----------------------------------------------------------------------------
(* _build_tree(urls_data).  The nodes are objects that depth_map and the   *)
(* children lists share, so the tree is modelled as a heap: node i is the  *)
(* dict made for urls_data[i], node 0 the root dict {'children': []}, and  *)
(* a children list holds node numbers.                                     *)

MaxRecs == 4

MaxDepth == 2

\* the (url, title) pairs of the records given to _build_tree
TreePages ==
    { [ url |-> << "/", "p" >>, title |-> << "T" >> ],
      [ url |-> << "/", "q" >>, title |-> << >> ] }

RecordInputs ==
    { [ url |-> p.url, title |-> p.title, depth |-> d ] : p \in TreePages, d \in 0..MaxDepth }

ListInputs == UNION { [ 1..n -> RecordInputs ] : n \in 0..MaxRecs }

\* line 586-587: tree = {'children': []}; depth_map = {-1: tree}
EmptyTree == [ root |-> << >>, nodes |-> << >>, depth_map |-> [ d \in { -1 } |-> 0 ] ]

\* a search that looks at depth - 1 only
FindParentDepth_DirectOnly(depth_map, pd) ==
    IF pd \in DOMAIN depth_map THEN pd ELSE -2

\* lines 598-604: the first depth from pd down to -1 that depth_map holds;
\* -2 when the loop ends without one
RECURSIVE FindParentDepth(_, _)
FindParentDepth(depth_map, pd) ==
    IF pd < -1 THEN -2
    ELSE IF pd \in DOMAIN depth_map THEN pd
    ELSE FindParentDepth(depth_map, pd - 1)

\* node number parent gets child appended to its children list
AddChild(t, parent, child) ==
    IF parent = 0
    THEN [ t EXCEPT !.root = Append(@, child) ]
    ELSE [ t EXCEPT !.nodes[parent].children = Append(@, child) ]

\* depth_map keeps the first node placed at a depth
DepthMapAfter_KeepFirst(depth_map, depth, id) ==
    IF depth \in DOMAIN depth_map THEN depth_map ELSE Put(depth_map, depth, id)

\* line 602: depth_map[depth] = node
DepthMapAfter(depth_map, depth, id) == Put(depth_map, depth, id)

\* lines 589-604: one iteration of the loop, for record rec
PlaceRecord(t, rec) ==
    The({ The({ IF pd = -2 THEN withNode
                ELSE [ AddChild(withNode, withNode.depth_map[pd], Len(withNode.nodes))
                         EXCEPT !.depth_map =
                             DepthMapAfter(@, rec.depth, Len(withNode.nodes)) ]
                : pd \in { FindParentDepth(withNode.depth_map, rec.depth - 1) } })
          : withNode \in { [ t EXCEPT !.nodes =
                                Append(@, [ url |-> rec.url,
                                            title |-> IF rec.title # << >>
                                                      THEN rec.title ELSE rec.url,
                                            depth |-> rec.depth,
                                            children |-> << >> ]) ] } })

\* _build_tree(urls_data)
RECURSIVE BuildFrom(_, _, _)
BuildFrom(t, data, i) ==
    IF i > Len(data) THEN t ELSE BuildFrom(PlaceRecord(t, data[i]), data, i + 1)

BuildTree(data) == BuildFrom(EmptyTree, data, 1)

\* SpecTree: _build_tree is called on a list of records
InitTree ==
    /\ \E seed \in CrawlSeeds : Constructed(seed)
    /\ stack = << >>
    /\ fetch_log = << >>
    /\ response = NoResponse
    /\ links_seen = { }
    /\ fn_call = "none"
    /\ fn_arg = << >>
    /\ fn_ret = NoResult
    /\ urls_data \in ListInputs
    /\ tree = EmptyTree
    /\ csv = << >>

CallBuildTree ==
    /\ fn_call = "none"
    /\ fn_call' = "_build_tree"
    /\ tree' = BuildTree(urls_data)
    /\ UNCHANGED << seedVars, crawlerVars, fn_arg, fn_ret, urls_data, csv >>

NextTree == CallBuildTree

SpecTree == InitTree /\ [][NextTree]_vars

-----------------------------------------------------------------------------
(* Claims about _build_tree, checked under SpecTree *)

\* the concatenation of a sequence of sequences
RECURSIVE Concat(_)
Concat(ss) == IF ss = << >> THEN << >> ELSE Head(ss) \o Concat(Tail(ss))

\* the pre-order traversal of the children list kids at nesting level level:
\* for every node its url, the depth it stores and the level it is nested at
RECURSIVE PreOrder(_, _, _)
PreOrder(t, kids, level) ==
    Concat([ k \in 1..Len(kids) |->
               << [ url |-> t.nodes[kids[k]].url,
                    depth |-> t.nodes[kids[k]].depth,
                    level |-> level ] >>
               \o PreOrder(t, t.nodes[kids[k]].children, level + 1) ])

\* the first depth is 0 and every depth is at most the one before it plus 1
IsPreOrderList(data) ==
    \/ data = << >>
    \/ /\ data[1].depth = 0
       /\ \A i \in 2..Len(data) : data[i].depth <= data[i - 1].depth + 1

\* C10: for an input list that is a pre-order traversal of a rooted hierarchy
\* the pre-order traversal of the built tree, in child-list order, is the
\* input list: the same urls, with the depths they came with, each nested at
\* the level that is its depth.
C10_TreeRoundTrip ==
    (fn_call = "_build_tree" /\ IsPreOrderList(urls_data)) =>
        PreOrder(tree, tree.root, 0) =
            [ i \in 1..Len(urls_data) |->
                [ url |-> urls_data[i].url, depth |-> urls_data[i].depth,
                  level |-> urls_data[i].depth ] ]

\* C10 witness: a tree was built from a pre-order list that returns from
\* depth 2 to a second subtree of depth 1
C10_Witness ==
    /\ fn_call = "_build_tree"
    /\ IsPreOrderList(urls_data)
    /\ Len(urls_data) = 4
    /\ urls_data[3].depth = 2
    /\ urls_data[4].depth = 1
    /\ Len(tree.nodes[1].children) = 2

\* the children list of node i of t, node 0 being the root dict
ChildrenOf(t, i) == IF i = 0 THEN t.root ELSE t.nodes[i].children

\* the depth of node i of t, the root dict standing at depth -1
DepthOf(t, i) == IF i = 0 THEN -1 ELSE t.nodes[i].depth

\* the places of t's children lists that hold node i
PlacesOf(t, i) ==
    { pl \in (0..Len(t.nodes)) \X (1..Len(t.nodes)) :
        /\ pl[2] <= Len(ChildrenOf(t, pl[1]))
        /\ ChildrenOf(t, pl[1])[pl[2]] = i }

\* the records before data[i] that have depth d
PlacedAt(data, i, d) == { j \in 1..(i - 1) : data[j].depth = d }

\* the parent the claim names for data[i]: the record most recently placed
\* at the greatest depth below data[i].depth that has one, else the root (0)
NearestPlaced(data, i) ==
    LET below == { d \in 0..(data[i].depth - 1) : PlacedAt(data, i, d) # { } }
    IN  IF below = { } THEN 0 ELSE MaxOf(PlacedAt(data, i, MaxOf(below)))

\* C17: for every list of records, in any order and with any depths >= 0,
\* every record is placed exactly once in the tree, as a child of the node
\* most recently placed at the greatest depth below its own that has a node
\* (or of the root); the new node becomes the most recently placed node of
\* its depth; and every node is deeper than its parent.
C17_EveryRecordPlacedOnce ==
    fn_call = "_build_tree" =>
        /\ Len(tree.nodes) = Len(urls_data)
        /\ \A i \in 1..Len(urls_data) :
              /\ tree.nodes[i].url = urls_data[i].url
              /\ tree.nodes[i].depth = urls_data[i].depth
              /\ Cardinality(PlacesOf(tree, i)) = 1
              /\ \A pl \in PlacesOf(tree, i) :
                    /\ pl[1] = NearestPlaced(urls_data, i)
                    /\ DepthOf(tree, pl[1]) < tree.nodes[i].depth
        /\ \A d \in 0..MaxDepth :
              IF PlacedAt(urls_data, Len(urls_data) + 1, d) = { }
              THEN d \notin DOMAIN tree.depth_map
              ELSE /\ d \in DOMAIN tree.depth_map
                   /\ tree.depth_map[d] = MaxOf(PlacedAt(urls_data, Len(urls_data) + 1, d))

\* C17 witness: a tree built from a list that is not in pre-order: a record
\* of depth 2 comes first and hangs under the root, a later one hangs under
\* the record of depth 0 because no record of depth 1 was placed
C17_Witness ==
    /\ fn_call = "_build_tree"
    /\ Len(urls_data) = 4
    /\ urls_data[1].depth = 2
    /\ urls_data[2].depth = 0
    /\ urls_data[3].depth = 2
    /\ urls_data[4].depth = 1
    /\ tree.root = << 1, 2 >>
    /\ tree.nodes[2].children = << 3, 4 >>

-----------------------------------------------------------------------------
(* Claims about the crawl, checked under Spec and SpecLive *)

\* C1: in a crawl run every canonical URL is passed to get_page_content at
\* most once; a URL whose fetch failed is not fetched again.
C1_FetchedAtMostOnce ==
    \A i, j \in 1..Len(fetch_log) : i # j => fetch_log[i] # fetch_log[j]

\* C2: visited_urls and the keys of failed_urls are disjoint in every state.
C2_VisitedFailedDisjoint == visited_urls \cap DOMAIN failed_urls = { }

\* C3: crawl(seed) terminates: a state with no pending crawl call is reached.
C3_Terminates == <>(stack = << >>)

\* C3 witness: the crawl has ended after visiting three pages, one of them
\* reached again by a link after its first fetch failed
C3_Witness ==
    /\ stack = << >>
    /\ Cardinality(visited_urls) >= 3
    /\ Len(fetch_log) >= 4

\* C4: a call of crawl on a URL whose normalized form is in Visited or in
\* Failed fetches nothing and leaves visited_urls, failed_urls, url_titles,
\* url_depths and url_tree unchanged.
C4_SeenCallIsNoOp ==
    [][ ( /\ stack # << >>
          /\ Top.pc = "call"
          /\ NormalizeUrl(Top.url) \in visited_urls \cup DOMAIN failed_urls )
        => UNCHANGED << visited_urls, failed_urls, url_titles, url_depths,
                        url_tree, fetch_log >> ]_vars

\* C5: every step of a crawl leaves visited_urls and the key set of
\* failed_urls supersets of what they were.
C5_SetsOnlyGrow ==
    [][ /\ visited_urls \subseteq visited_urls'
        /\ DOMAIN failed_urls \subseteq DOMAIN failed_urls' ]_vars

\* C5 witness: pages were visited and a fetch failed, and one URL was
\* fetched twice
C5_Witness ==
    /\ Cardinality(visited_urls) >= 2
    /\ DOMAIN failed_urls # { }
    /\ \E i, j \in 1..Len(fetch_log) : i # j /\ fetch_log[i] = fetch_log[j]

\* C9: every URL in visited_urls has a recorded depth, and it is
\* calculate_depth of the URL's own path and the seed base path, whichever
\* page linked to it and also when it is a redirect target.
C9_DepthIsStructural ==
    \A u \in visited_urls :
        /\ u \in DOMAIN url_depths
        /\ url_depths[u] = CalculateDepth(u, base_path)

\* C9 witness: a redirect target that no link can reach is visited, together
\* with a page of depth 2 and a page of depth 1
C9_Witness ==
    /\ NormalizeUrl(SiteE) \in visited_urls
    /\ \E u, v \in visited_urls : url_depths[u] = 2 /\ url_depths[v] = 1

-----------------------------------------------------------------------------
(* Claims about single steps of the crawl, checked under SpecTraced *)

Last(s) == s[Len(s)]

\* this step is a fetch of a URL by crawl()
IsFetchStep == fetch_log' # fetch_log

\* the request of this step was answered without an exception, with status
\* 200 and an html content type
Answered200Html ==
    /\ response'.exc = "none"
    /\ response'.status = 200
    /\ IsSubstring(TextHtml, response'.content_type)

\* C11: when the fetch of u succeeds with a final URL f and normalize(f) # u,
\* then after the step u and normalize(f) are in visited_urls, url_titles
\* holds one title for both, url_depths holds calculate_depth of each, only u
\* was fetched in the step, and no URL in visited_urls is fetched by any step.
C11_RedirectRecorded ==
    [][ IsFetchStep =>
          /\ Last(fetch_log') \notin visited_urls
          /\ \A u \in { Last(fetch_log') } : \A f \in { NormalizeUrl(response'.url) } :
                (Answered200Html /\ f # u) =>
                    /\ { u, f } \subseteq visited_urls'
                    /\ { u, f } \subseteq DOMAIN url_titles'
                    /\ url_titles'[u] = url_titles'[f]
                    /\ { u, f } \subseteq DOMAIN url_depths'
                    /\ url_depths'[u] = CalculateDepth(u, base_path)
                    /\ url_depths'[f] = CalculateDepth(f, base_path)
                    /\ fetch_log' = Append(fetch_log, u) ]_vars

\* C11 amended: as C11, but url_titles is claimed to hold one title for u and
\* normalize(f) only when normalize(f) is not in visited_urls before the step
\* (line 282); a normalize(f) that is in visited_urls keeps the title it has.
C11_NewRedirectRecorded ==
    [][ IsFetchStep =>
          /\ Last(fetch_log') \notin visited_urls
          /\ \A u \in { Last(fetch_log') } : \A f \in { NormalizeUrl(response'.url) } :
                (Answered200Html /\ f # u) =>
                    /\ { u, f } \subseteq visited_urls'
                    /\ { u, f } \subseteq DOMAIN url_titles'
                    /\ f \notin visited_urls => url_titles'[u] = url_titles'[f]
                    /\ f \in visited_urls => url_titles'[f] = url_titles[f]
                    /\ { u, f } \subseteq DOMAIN url_depths'
                    /\ url_depths'[u] = CalculateDepth(u, base_path)
                    /\ url_depths'[f] = CalculateDepth(f, base_path)
                    /\ fetch_log' = Append(fetch_log, u) ]_vars

\* C11 witness: the last request was redirected from the URL fetched to a
\* URL that was never fetched; both are in visited_urls with one non-empty
\* title and different depths
C11_Witness ==
    /\ fetch_log # << >>
    /\ response.exc = "none"
    /\ \E u \in { Last(fetch_log) } : \E f \in { NormalizeUrl(response.url) } :
        /\ { u, f } \subseteq visited_urls
        /\ \A i \in 1..Len(fetch_log) : fetch_log[i] # f
        /\ url_titles[u] = url_titles[f]
        /\ url_titles[u] # << >>
        /\ url_depths[u] # url_depths[f]

\* the failed fetch of this step records the URL with a reason in failed_urls
\* and changes nothing else: the call returns without having added a frame
FailureOnlyRecorded ==
    (IsFetchStep /\ ~Answered200Html) =>
        \E u \in { Last(fetch_log') } :
            /\ DOMAIN failed_urls' = DOMAIN failed_urls \cup { u }
            /\ failed_urls'[u] # << >>
            /\ \A v \in DOMAIN failed_urls \ { u } : failed_urls'[v] = failed_urls[v]
            /\ UNCHANGED << visited_urls, url_titles, url_depths, url_tree >>
            /\ stack' = Pop

\* C12: a failed fetch records the URL with its reason in failed_urls and
\* does nothing else (visited_urls, url_titles, url_depths, url_tree
\* unchanged, no links extracted, no recursive crawl started), and a URL in
\* failed_urls is never in visited_urls for the rest of the run.
C12_FailureOnlyRecorded ==
    [][ /\ FailureOnlyRecorded
        /\ \A u \in DOMAIN failed_urls' : u \notin visited_urls' ]_vars

\* the URLs of the records url_tree holds under any key
UrlsInTree(t) == UNION { { t[k][i].url : i \in 1..Len(t[k]) } : k \in DOMAIN t }

\* the key the claim names for the record of this step's fetch: the URL of
\* the crawl call that called the fetching one, or 'root' for the seed call
CallerKey == IF Len(stack) >= 2 THEN stack[Len(stack) - 1].url ELSE RootKey

\* C19: url_tree holds each URL fetched with success exactly once over all
\* its keys, appended when it is fetched under the key of the page whose
\* crawl call fetched it; the key 'root' holds at most one record, that of
\* the seed; every other key is in visited_urls when a record is appended.
C19_DiscoveryEdges ==
    [][ /\ (IsFetchStep /\ Answered200Html) =>
              \E u \in { Last(fetch_log') } :
                 /\ u \notin UrlsInTree(url_tree)
                 /\ CallerKey \in DOMAIN url_tree'
                 /\ Last(url_tree'[CallerKey]).url = u
                 /\ Last(url_tree'[CallerKey]).depth = url_depths'[u]
                 /\ Last(url_tree'[CallerKey]).title = url_titles'[u]
                 /\ url_tree' = AppendTo(url_tree, CallerKey, Last(url_tree'[CallerKey]))
                 /\ CallerKey # RootKey => CallerKey \in visited_urls
                 /\ CallerKey = RootKey => u = base_url /\ RootKey \notin DOMAIN url_tree
        /\ ~(IsFetchStep /\ Answered200Html) => url_tree' = url_tree
        /\ RootKey \in DOMAIN url_tree' => Len(url_tree'[RootKey]) = 1
        /\ \A k \in DOMAIN url_tree' :
              \A i, j \in 1..Len(url_tree'[k]) :
                 url_tree'[k][i].url = url_tree'[k][j].url => i = j
        /\ \A k1, k2 \in DOMAIN url_tree' :
              k1 # k2 => \A i \in 1..Len(url_tree'[k1]), j \in 1..Len(url_tree'[k2]) :
                            url_tree'[k1][i].url # url_tree'[k2][j].url
      ]_vars

\* C19 witness: the seed under 'root', two pages under the seed, one of them
\* fetched with success only at its second fetch
C19_Witness ==
    /\ RootKey \in DOMAIN url_tree
    /\ base_url \in DOMAIN url_tree
    /\ Len(url_tree[base_url]) = 2
    /\ \E i, j \in 1..Len(fetch_log) : i < j /\ fetch_log[i] = fetch_log[j]
    /\ Len(fetch_log) = 4

\* C20: every URL in visited_urls other than the seed is crawlable: it has
\* the seed's authority, no query string, and passes the extension filter of
\* is_valid_url, also when it is the final URL of a redirect.
C20_VisitedAreCrawlable ==
    \A u \in visited_urls \ { base_url } : IsValidUrl(u, base_domain)

-----------------------------------------------------------------------------
(* get_sorted_urls() and the rows export_to_csv() writes *)

\* a < b for str: the comparison of Python's sort, by code point
CharOrder ==
    << "#", ".", "/", ":", "?", "J", "P", "S", "T", "a", "b", "d", "e", "f", "h",
       "i", "j", "m", "o", "p", "q", "s", "t", "x" >>

CodePoint(c) == The({ i \in 1..Len(CharOrder) : CharOrder[i] = c })

RECURSIVE StrLess(_, _)
StrLess(a, b) ==
    IF b = << >> THEN FALSE
    ELSE IF a = << >> THEN TRUE
    ELSE IF Head(a) # Head(b) THEN CodePoint(Head(a)) < CodePoint(Head(b))
    ELSE StrLess(Tail(a), Tail(b))

\* sorted(S): the strings of S in ascending order
RECURSIVE SortedSeq(_)
SortedSeq(S) ==
    IF S = { } THEN << >>
    ELSE The({ << m >> \o SortedSeq(S \ { m })
               : m \in { x \in S : \A y \in S \ { x } : StrLess(x, y) } })

\* dict.get(key, default)
GetOr(d, k, default) == IF k \in DOMAIN d THEN d[k] ELSE default

\* lines 324-333: get_sorted_urls()
GetSortedUrls ==
    [ i \in 1..Cardinality(visited_urls) |->
        [ url |-> SortedSeq(visited_urls)[i],
          title |-> GetOr(url_titles, SortedSeq(visited_urls)[i], << >>),
          depth |-> GetOr(url_depths, SortedSeq(visited_urls)[i], 0) ] ]

\* a row without the empty cells
CsvRow_NoIndent(rec) == << rec.url, rec.title >>

\* line 349: row = [''] * depth + [url, title]
CsvRow(rec) == [ i \in 1..rec.depth |-> << >> ] \o << rec.url, rec.title >>

\* line 357: the header row of the failed section
FailedHeader == << << "F", "A", "I", "L", "E", "D" >> >>

\* line 358: the column names of the failed section
FailedColumns == << << "U", "R", "L" >>, << "R", "E", "A", "S", "O", "N" >> >>

\* lines 353-364: the failed section, written when failed_urls is not empty
FailedSection ==
    IF DOMAIN failed_urls = { } THEN << >>
    ELSE << << >>, << >>, FailedHeader, FailedColumns >>
         \o [ i \in 1..Cardinality(DOMAIN failed_urls) |->
                << SortedSeq(DOMAIN failed_urls)[i],
                   failed_urls[SortedSeq(DOMAIN failed_urls)[i]] >> ]

\* lines 341-364: export_to_csv(), called by main() when crawl() has returned
ExportToCsv ==
    /\ stack = << >>
    /\ fn_call = "none"
    /\ fn_call' = "export_to_csv"
    /\ \E data \in { GetSortedUrls } :
        /\ urls_data' = data
        /\ csv' = [ i \in 1..Len(data) |-> CsvRow(data[i]) ] \o FailedSection
    /\ UNCHANGED << seedVars, crawlerVars, fn_arg, fn_ret, tree >>

\* lines 377-380: export_to_html(), called by main() after export_to_csv();
\* the tree it renders is kept
ExportToHtml ==
    /\ fn_call = "export_to_csv"
    /\ fn_call' = "export_to_html"
    /\ \E data \in { GetSortedUrls } :
        /\ urls_data' = data
        /\ tree' = BuildTree(data)
    /\ UNCHANGED << seedVars, crawlerVars, fn_arg, fn_ret, csv >>

\* main(), lines 680-694: the crawl, then the two exports
NextMain ==
    \/ Crawl
    \/ CrawlLink
    \/ CrawlReturn
    \/ ExportToCsv
    \/ ExportToHtml

SpecMain == Init /\ [][NextMain]_vars

-----------------------------------------------------------------------------
(* Claims about the exports, checked under SpecMain *)

\* the rows of the file before the failed section
DataRows == SubSeq(csv, 1, Cardinality(visited_urls))

\* the rows of the failed section after its two empty rows and two headers
FailedRows == SubSeq(csv, Cardinality(visited_urls) + 5, Len(csv))

\* the URL of a data row: its last cell but one
RowUrl(row) == row[Len(row) - 1]

\* C13: after the crawl the CSV file holds one data row per URL in
\* visited_urls, in ascending order of URL, each row depth(url) empty cells,
\* then the URL and its title; the failed section lists every key of
\* failed_urls once with its reason, in ascending order of URL.
C13_CsvRows ==
    fn_call = "export_to_csv" =>
        /\ Len(csv) >= Cardinality(visited_urls)
        /\ \A u \in visited_urls : \E i \in 1..Len(DataRows) :
              /\ Len(DataRows[i]) = url_depths[u] + 2
              /\ \A k \in 1..url_depths[u] : DataRows[i][k] = << >>
              /\ DataRows[i][url_depths[u] + 1] = u
              /\ DataRows[i][url_depths[u] + 2] = url_titles[u]
        /\ \A i \in 1..(Len(DataRows) - 1) :
              StrLess(RowUrl(DataRows[i]), RowUrl(DataRows[i + 1]))
        /\ DOMAIN failed_urls = { } => Len(csv) = Cardinality(visited_urls)
        /\ DOMAIN failed_urls # { } =>
              /\ Len(FailedRows) = Cardinality(DOMAIN failed_urls)
              /\ \A u \in DOMAIN failed_urls : \E i \in 1..Len(FailedRows) :
                    FailedRows[i] = << u, failed_urls[u] >>
              /\ \A i \in 1..(Len(FailedRows) - 1) :
                    StrLess(FailedRows[i][1], FailedRows[i + 1][1])

\* C13 witness: a file with three data rows, one of them indented, and a
\* failed section
C13_Witness ==
    /\ fn_call = "export_to_csv"
    /\ Cardinality(visited_urls) = 3
    /\ \E i \in 1..3 : Len(csv[i]) >= 3
    /\ DOMAIN failed_urls # { }
    /\ Len(csv) = 8

-----------------------------------------------------------------------------
(* Claims about the whole crawl, checked under SpecTraced *)

\* C14: when crawl(seed) has returned, every link extracted from a page
\* that was fetched is in visited_urls or in failed_urls, whichever fetches
\* failed.
C14_ClosedUnderLinks ==
    stack = << >> => links_seen \subseteq (visited_urls \cup DOMAIN failed_urls)

\* C14 witness: the crawl has returned, a fetch failed, and a link that the
\* loop took after the failed one was fetched with success
C14_Witness ==
    /\ stack = << >>
    /\ Cardinality(links_seen) = 3
    /\ \E i, j \in 1..Len(fetch_log) :
        /\ i < j
        /\ fetch_log[i] \in DOMAIN failed_urls
        /\ fetch_log[i] \notin visited_urls
        /\ fetch_log[j] \in visited_urls

\* this step starts the crawl call for a link of page p
StartsChildOf(p) ==
    /\ Len(stack') = Len(stack) + 1
    /\ Last(stack').pc = "call"
    /\ Last(stack').parent = p

\* C15: the crawl is sequential and depth-first.  At most one crawl call
\* is about to fetch, and it is the innermost call; a step fetches at most
\* one URL, for the innermost call; and the call for a link of page p is
\* started only when the innermost running call is the loop of p, that is
\* when the calls for p's earlier links and all the calls they started have
\* returned.
C15_SequentialDepthFirst ==
    [][ /\ \A i \in 1..(Len(stack) - 1) : stack[i].pc = "loop"
        /\ IsFetchStep =>
              /\ fetch_log' = Append(fetch_log, NormalizeUrl(Top.url))
              /\ Top.pc = "call"
        /\ \A i \in 1..Len(stack) :
              StartsChildOf(stack[i].url) =>
                  /\ i = Len(stack)
                  /\ stack[i].pc = "loop"
                  /\ \A k \in 1..Len(stack) : stack'[k].url = stack[k].url
        /\ Len(stack') > Len(stack) => \E i \in 1..Len(stack) : StartsChildOf(stack[i].url)
      ]_vars

\* C15 witness: the call for a second link of the seed page is about to
\* fetch, after the call for an earlier link fetched it and a link of its own
C15_Witness ==
    /\ Len(stack) = 2
    /\ stack[2].pc = "call"
    /\ Len(fetch_log) = 3
    /\ stack[1].url \in DOMAIN url_tree
    /\ Len(url_tree[stack[1].url]) = 1
    /\ url_tree[stack[1].url][1].url = fetch_log[2]
    /\ fetch_log[2] # stack[2].url

\* C16: the URL fetched enters visited_urls if and only if the response has
\* status 200 and a Content-Type containing 'text/html' and no exception was
\* raised; otherwise it is recorded in failed_urls with a reason, which holds
\* the status code when the status is not 200 and the content type when the
\* content type is not html.
C16_SuccessIff200Html ==
    [][ IsFetchStep =>
          \A u \in { Last(fetch_log') } :
             /\ u \in visited_urls' <=> Answered200Html
             /\ ~Answered200Html =>
                  /\ u \in DOMAIN failed_urls'
                  /\ failed_urls'[u] # << >>
                  /\ (response'.exc = "none" /\ response'.status # 200)
                        => IsSubstring(Str(response'.status), failed_urls'[u])
                  /\ (response'.exc = "none"
                        /\ ~IsSubstring(TextHtml, response'.content_type))
                        => IsSubstring(response'.content_type, failed_urls'[u]) ]_vars

\* C16 amended: as C16, but the reason holds the status code when the status
\* is not 200 and the content type is html; a response whose content type is
\* not html is recorded with its content type whatever its status (the
\* Content-Type test of line 155 comes before the status test of line 159).
C16_SuccessIff200Html_TypeFirst ==
    [][ IsFetchStep =>
          \A u \in { Last(fetch_log') } :
             /\ u \in visited_urls' <=> Answered200Html
             /\ ~Answered200Html =>
                  /\ u \in DOMAIN failed_urls'
                  /\ failed_urls'[u] # << >>
                  /\ (response'.exc = "none" /\ response'.status # 200
                        /\ IsSubstring(TextHtml, response'.content_type))
                        => IsSubstring(Str(response'.status), failed_urls'[u])
                  /\ (response'.exc = "none"
                        /\ ~IsSubstring(TextHtml, response'.content_type))
                        => IsSubstring(response'.content_type, failed_urls'[u]) ]_vars

\* C16 witness: after a page was fetched with success, the last request was
\* answered with status 404 and an html content type and its URL is recorded
\* in failed_urls with a reason that ends with 404
C16_Witness ==
    /\ visited_urls # { }
    /\ response.exc = "none"
    /\ response.status = 404
    /\ response.content_type = HtmlType
    /\ Last(fetch_log) \in DOMAIN failed_urls
    /\ Last(fetch_log) \notin visited_urls
    /\ EndsWith(failed_urls[Last(fetch_log)], << "4", "0", "4" >>)

-----------------------------------------------------------------------------
(* The exports after a crawl of a site whose seed page links to all the    *)
(* other pages, over a larger set of pages than the crawl above takes.     *)

SiteRoot == HTTP \o SchemeSep \o HostH

\* the absolute URLs the anchors of the seed page may resolve to
SeedPageHrefs ==
    { SiteRoot \o << "/", "d", "/", "a" >>,
      SiteRoot \o << "/", "d", "/", "a", "/", "b", ".", "h", "t", "m" >>,
      SiteRoot \o << "/", "d", "/", "e" >>,
      SiteRoot \o << "/", "d", "/", "e", "/", "b", ".", "h", "t", "m" >>,
      SiteRoot \o << "/", "e" >>,
      SiteRoot \o << "/", "a", ".", "h", "t", "m" >> }

\* the record crawl() appends to url_tree for url (lines 295-306)
TreeRecord(url, bpath) ==
    [ url |-> url, title |-> << "T" >>, depth |-> CalculateDepth(url, bpath) ]

\* the crawler when crawl(base_url) has returned: the seed page was fetched,
\* its links were fetched in sorted order, every page has the title T and
\* the pages other than the seed have no links
CrawledOver(seed, hrefs) ==
    \E links \in { ExtractLinks(hrefs, CrawlerInit(seed).base_domain)
                     \ { CrawlerInit(seed).base_url } } :
    \E bpath \in { CrawlerInit(seed).base_path } :
        /\ base_url = CrawlerInit(seed).base_url
        /\ base_domain = CrawlerInit(seed).base_domain
        /\ base_path = bpath
        /\ visited_urls = { base_url } \cup links
        /\ failed_urls = << >>
        /\ url_titles = [ u \in { base_url } \cup links |-> << "T" >> ]
        /\ url_depths = [ u \in { base_url } \cup links |-> CalculateDepth(u, bpath) ]
        /\ url_tree =
              IF links = { }
              THEN Put(<< >>, RootKey, << TreeRecord(base_url, bpath) >>)
              ELSE Put(Put(<< >>, RootKey, << TreeRecord(base_url, bpath) >>),
                       base_url,
                       [ i \in 1..Cardinality(links) |->
                           TreeRecord(SortedSeq(links)[i], bpath) ])
        /\ fetch_log = << base_url >> \o SortedSeq(links)
        /\ stack = << >>

InitHtml ==
    /\ \E seed \in CrawlSeeds, hrefs \in SUBSET SeedPageHrefs : CrawledOver(seed, hrefs)
    /\ response = NoResponse
    /\ links_seen = { }
    /\ fn_call = "none"
    /\ fn_arg = << >>
    /\ fn_ret = NoResult
    /\ urls_data = << >>
    /\ tree = << >>
    /\ csv = << >>

NextHtml ==
    \/ ExportToCsv
    \/ ExportToHtml

SpecHtml == InitHtml /\ [][NextHtml]_vars

\* the path of p is a proper directory prefix of the path of c
IsPathAncestor(p, c) ==
    /\ UrlParse(p).path # UrlParse(c).path
    /\ StartsWith(UrlParse(c).path, RStripSlash(UrlParse(p).path) \o << "/" >>)

\* C18: in the tree export_to_html builds from the records of visited_urls
\* sorted by URL, the parent of every node is the root or a node whose URL
\* path is a proper directory prefix of the node's URL path.
C18_ParentIsPathAncestor ==
    fn_call = "export_to_html" =>
        \A p \in 1..Len(tree.nodes) :
            \A k \in 1..Len(tree.nodes[p].children) :
                IsPathAncestor(tree.nodes[p].url, tree.nodes[tree.nodes[p].children[k]].url)

=============================================================================
